---- MODULE Spec2Model ----
(***************************************************************************)
(* Model of the dice-stream repository: the aggregator                     *)
(* (consumers/stream_consumer.py), the snapshot writer (utils/snapshot.py),*)
(* the live presenter (consumers/animate_dice.py) and the offline analyzer *)
(* (tools/analyze_snapshots.py).                                           *)
(*                                                                         *)
(* Numbers.  Python floats are modelled exactly: a proportion c/n is the   *)
(* pair <<c, n>> (numerator, denominator), and a value the writer rounds   *)
(* with round(x, 6) is the integer number of millionths, rounded half to   *)
(* even as Python rounds.                                                  *)
(*                                                                         *)
(* Environment.  The directory of SNAPSHOT_PATH and the reports directory  *)
(* exist and are writable (init() and the analyzer create them).           *)
(***************************************************************************)
EXTENDS Integers, Sequences, FiniteSets, TLC

VARIABLES
    \* --- StreamConsumer (stream_consumer.py)
    counts,          \* sc.counts : face -> count
    n,               \* sc.n
    held,            \* the tuple a caller keeps from its last current() call
    \* --- snapshot module (snapshot.py)
    SNAPSHOT_EVERY,  \* module constant read from the environment at import
    exists,          \* os.path.exists(SNAPSHOT_PATH)
    file,            \* the lines of the file at SNAPSHOT_PATH, in file order
    missing_cols,    \* columns of FIELDS absent from the file's header line
    \* --- animate_live (animate_dice.py)
    pc,              \* position of the live process
    paused,          \* state["paused"]
    stopped,         \* state["stopped"]
    state_n,         \* state["n"]
    timer,           \* anim.event_source is running
    pulls,           \* events pulled from dice_stream (its trial_id)
    at_pause,        \* << state["n"], pulls, file >> when space last paused
    launched_at,     \* data rows in the log at each launch of animate_live
    \* --- analyzer (analyze_snapshots.py)
    apc,             \* position of the analyzer script
    df,              \* data rows of the loaded frame, in file order
    run,             \* df["run"]
    latest,          \* index labels of the rows of the latest run
    written,         \* output files written so far
    first_pass,      \* frame first_pass: rows [run, n_at_first_pass]
    last_per_run,    \* index labels kept by sort_values/groupby/tail(1)
    summary,         \* frame summary
    \* --- observation of the last call (history)
    op,              \* name of the last handler or function that ran
    evt,             \* the event passed to the last process_event call
    arg_n,           \* the n passed to the last maybe_write call
    calls,           \* number of calls made so far
    k,               \* number of valid dice events applied to the consumer
    err              \* the exception that ended the last call, or "none"

vars == << counts, n, held, SNAPSHOT_EVERY, exists, file, missing_cols, pc, paused, stopped,
           state_n, timer, pulls, at_pause, launched_at, apc, df, run, latest, written, first_pass,
           last_per_run, summary, op, evt, arg_n, calls, k, err >>

consumerVars == << counts, n, held >>
snapVars     == << SNAPSHOT_EVERY, exists, file, missing_cols >>
liveVars     == << pc, paused, stopped, state_n, timer, pulls, at_pause,
                   launched_at >>
analyzerVars == << apc, df, run, latest, written, first_pass, last_per_run,
                   summary >>

-----------------------------------------------------------------------------
(* Bounds of the model. *)

MaxCalls == 4      \* process_event calls made on one consumer
MaxWriterCalls == 3 \* init and maybe_write calls made on one log
MaxPulls == 4      \* events pulled by the live processes of a history
MaxRows  == 4      \* rows of a generated log

-----------------------------------------------------------------------------
(* Generic helpers. *)

Faces == 1..6

Abs(x) == IF x < 0 THEN -x ELSE x

RECURSIVE SumSeq(_)
SumSeq(s) == IF s = << >> THEN 0 ELSE Head(s) + SumSeq(Tail(s))

IsPrefix(s, t) == Len(s) <= Len(t) /\ SubSeq(t, 1, Len(s)) = s

\* round(num/den, 6) in millionths, den > 0, num >= 0; ties go to the even
\* neighbour as Python's round does.
Round6(num, den) ==
    LET q    == num \div den
        r    == num % den
        m    == (r * 1000000) \div den
        rem  == (r * 1000000) % den
        frac == IF 2 * rem > den THEN m + 1
                ELSE IF 2 * rem < den THEN m
                ELSE IF m % 2 = 0 THEN m ELSE m + 1
    IN  q * 1000000 + frac

-----------------------------------------------------------------------------
(* consumers/stream_consumer.py *)

init_counts == [face \in Faces |-> 0]

\* proportions(counts): counts[k] / total, or 0.0 when total is 0.
proportions(cs) ==
    LET total == SumSeq([i \in 1..6 |-> cs[i]])
    IN  [f \in Faces |-> IF total # 0 THEN << cs[f], total >> ELSE << 0, 1 >>]

\* isinstance(outcome, int): bool is a subclass of int in Python (True is
\* the integer 1), float, str and None are not.
PyIsInt(otype) == otype \in {"int", "bool"}

\* Events as process_event can receive them.  isdict: the argument is a
\* dict; event_type: the value under "event_type" ("missing": no such key);
\* otype/oval: Python type and numeric value of the value under "outcome"
\* ("missing": no such key, .get returns None).
Outcomes ==
    [otype : {"int"}, oval : 0..7]
        \cup [otype : {"bool"}, oval : {0, 1}]
        \cup [otype : {"float", "str"}, oval : {3}]
        \cup [otype : {"missing"}, oval : {0}]

NonDict == [isdict |-> FALSE, event_type |-> "missing", otype |-> "missing",
            oval |-> 0]

Events ==
    { [isdict |-> TRUE, event_type |-> t, otype |-> o.otype, oval |-> o.oval] :
        t \in {"dice", "coin", "missing"}, o \in Outcomes }
        \cup {NonDict}

NoEvent == NonDict

\* The event dice_stream yields for a face.
DiceEvent(face) == [isdict |-> TRUE, event_type |-> "dice", otype |-> "int",
                    oval |-> face]

\* StreamConsumer.process_event as a function of the consumer's state:
\* the pair << counts, n >> after the call.
ProcessCountsBeforeRangeCheck(cs, total, event) ==
    IF event.isdict /\ event.event_type = "dice"
    THEN IF PyIsInt(event.otype) /\ 1 <= event.oval /\ event.oval <= 6
         THEN << [cs EXCEPT ![event.oval] = @ + 1], total + 1 >>
         ELSE << cs, total + 1 >>
    ELSE << cs, total >>

ProcessAnyEventType(cs, total, event) ==
    IF event.isdict
    THEN IF PyIsInt(event.otype) /\ 1 <= event.oval /\ event.oval <= 6
         THEN << [cs EXCEPT ![event.oval] = @ + 1], total + 1 >>
         ELSE << cs, total >>
    ELSE << cs, total >>

ProcessKeepsN(cs, total, event) ==
    IF event.isdict /\ event.event_type = "dice"
    THEN IF PyIsInt(event.otype) /\ 1 <= event.oval /\ event.oval <= 6
         THEN << [cs EXCEPT ![event.oval] = @ + 1], total >>
         ELSE << cs, total >>
    ELSE << cs, total >>

Process(cs, total, event) ==
    IF event.isdict /\ event.event_type = "dice"
    THEN IF PyIsInt(event.otype) /\ 1 <= event.oval /\ event.oval <= 6
         THEN << [cs EXCEPT ![event.oval] = @ + 1], total + 1 >>
         ELSE << cs, total >>
    ELSE << cs, total >>

-----------------------------------------------------------------------------
(* utils/snapshot.py *)

\* _counts_vec(counts) for a dict keyed 1..6: the list [c1..c6].
counts_vec(cs) == [i \in 1..6 |-> cs[i]]

\* _proportions(counts, n): [0.0] * 6 when n <= 0, else c / n.
snap_proportions(vec, total) ==
    IF total <= 0 THEN [i \in 1..6 |-> << 0, 1 >>]
    ELSE [i \in 1..6 |-> << vec[i], total >>]

\* _chi2(counts, n) as a rational << num, den >>:
\* sum((c - n/6)^2 / (n/6)) = sum((6c - n)^2) / (6n).
chi2(vec, total) ==
    IF total <= 0 THEN << 0, 1 >>
    ELSE << SumSeq([i \in 1..6 |-> (6 * vec[i] - total) * (6 * vec[i] - total)]),
            6 * total >>

\* |p - 1/6| for a proportion p = << num, den >>, as a rational.
AbsDev(p) == << Abs(6 * p[1] - p[2]), 6 * p[2] >>

RatLeq(a, b) == a[1] * b[2] <= b[1] * a[2]

\* _max_abs_dev(props): max(abs(p - 1/6) for p in props) if props else 0.0.
max_abs_dev(props) ==
    IF props = << >> THEN << 0, 1 >>
    ELSE LET devs == [i \in 1..Len(props) |-> AbsDev(props[i])]
             best == CHOOSE i \in 1..Len(devs) :
                        \A j \in 1..Len(devs) : RatLeq(devs[j], devs[i])
         IN  devs[best]

\* The header line written by csv.DictWriter(...).writeheader().
Header == [kind |-> "header", ts |-> 0, n |-> 0, max_abs_dev |-> 0,
           chi2 |-> 0, p |-> [i \in 1..6 |-> << 0, 1 >>],
           c |-> [i \in 1..6 |-> 0]]

\* The row dict maybe_write builds (lines 92-102).
Row(ts, total, cs) ==
    LET vec == counts_vec(cs)
        ps  == snap_proportions(vec, total)
        mad == max_abs_dev(ps)
        x2  == chi2(vec, total)
    IN  [kind |-> "row", ts |-> ts, n |-> total,
         max_abs_dev |-> Round6(mad[1], mad[2]),
         chi2 |-> Round6(x2[1], x2[2]),
         p |-> ps, c |-> vec]

\* The cadence test of maybe_write (line 83), negated: the call goes on.
ShouldWriteNoZero(total, every) == every > 0 /\ total > 0 /\ total % every = 0

ShouldWriteAlways(total, every) == every > 0

ShouldWrite(total, every) == ~(every <= 0 \/ (total % every) # 0)

\* init() (lines 69-74): the file's lines after the call.
init_file_truncating(ex, f) == << Header >>

init_file(ex, f) == IF ~ex THEN << Header >> ELSE f

\* maybe_write(n, counts) (lines 76-104): the file's lines after the call;
\* ts is what time.strftime returns.
maybe_write_file(f, total, cs, ts, every) ==
    IF ShouldWrite(total, every) THEN Append(f, Row(ts, total, cs)) ELSE f

-----------------------------------------------------------------------------
(* Values of the variables a specification does not use. *)

\* What time.strftime can return: two clock readings.
TsVals == {0, 1}

NoFrame == << >>

\* No tuple taken yet.
NoSnapshot == [counts |-> "none", proportions |-> proportions(init_counts),
               n |-> 0]

ConsumerIdle == counts = init_counts /\ n = 0 /\ held = NoSnapshot
SnapIdle     == /\ SNAPSHOT_EVERY = 0 /\ exists = FALSE /\ file = << >>
                /\ missing_cols = {}
LiveIdle     == /\ pc = "off" /\ paused = FALSE /\ stopped = FALSE
                /\ state_n = 0 /\ timer = FALSE /\ pulls = 0
                /\ at_pause = << >>
AnalyzerIdle == /\ apc = "off" /\ df = NoFrame /\ run = << >>
                /\ latest = << >> /\ written = {} /\ first_pass = << >>
                /\ last_per_run = << >> /\ summary = << >>
HistoryInit  == /\ op = "none" /\ evt = NoEvent /\ arg_n = 0 /\ calls = 0
                /\ k = 0 /\ err = "none"

-----------------------------------------------------------------------------
(* Specification SpecConsumer: process_event called on a fresh            *)
(* StreamConsumer with any events.                                         *)

\* A valid dice event: a dict with event_type "dice" and an integer outcome
\* in 1..6.
IsDiceEvent(e) ==
    e.isdict /\ e.event_type = "dice" /\ PyIsInt(e.otype) /\ e.oval \in Faces

\* sc.process_event(event)
process_event(e) ==
    /\ calls < MaxCalls
    /\ LET r == Process(counts, n, e)
       IN  counts' = r[1] /\ n' = r[2]
    /\ op' = "process_event"
    /\ evt' = e
    /\ calls' = calls + 1
    /\ k' = IF IsDiceEvent(e) THEN k + 1 ELSE k
    /\ err' = "none"
    /\ UNCHANGED << held, snapVars, liveVars, analyzerVars, arg_n >>

\* sc.current() (lines 40-41), which is also what consume_forever yields
\* (line 51): the first component is the consumer's own dict self.counts,
\* not a copy; the second is a new dict; the third is an int.
current ==
    /\ calls < MaxCalls
    /\ held' = [counts |-> "self.counts", proportions |-> proportions(counts),
                n |-> n]
    /\ op' = "current"
    /\ calls' = calls + 1
    /\ err' = "none"
    /\ UNCHANGED << counts, n, snapVars, liveVars, analyzerVars, evt, arg_n,
                    k >>

\* What a caller reads in the first component of the tuple it holds: the
\* dict it references, which is the consumer's.
HeldCounts == IF held.counts = "self.counts" THEN counts ELSE init_counts

ConsumerInit ==
    ConsumerIdle /\ SnapIdle /\ LiveIdle /\ AnalyzerIdle /\ HistoryInit
    /\ launched_at = << >>

ConsumerNext ==
    \/ \E e \in Events : process_event(e)
    \/ current

SpecConsumer == ConsumerInit /\ [][ConsumerNext]_vars

\* C1 (conservation): in every state reached by applying process_event to a
\* fresh consumer, n equals the number k of valid dice events applied so
\* far and the counts of the six faces add up to n.
C1_Conservation ==
    /\ n = k
    /\ SumSeq([f \in Faces |-> counts[f]]) = n

\* Three valid events on two different faces have been applied, with a
\* malformed one in between.
C1_Witness ==
    /\ k = 3 /\ calls = 4
    /\ counts[1] = 2 /\ counts[6] = 1

\* C17 (snapshots are stable values): the tuple (counts, proportions, n)
\* a caller holds from a current() call still satisfies sum(counts) = n
\* and proportions[f] = counts[f] / n, whatever events the same consumer
\* has processed since.
C17_SnapshotStable ==
    held.counts # "none" =>
        /\ SumSeq(counts_vec(HeldCounts)) = held.n
        /\ held.n > 0 =>
              \A f \in Faces :
                  held.proportions[f] = << HeldCounts[f], held.n >>

\* C6 (malformed events are ignored): a process_event call whose event is
\* not a dict with event_type "dice" and an integer outcome in 1..6 leaves
\* every count and n unchanged and raises nothing.
C6_MalformedIgnored ==
    [][ (op' = "process_event" /\ calls' = calls + 1 /\ ~IsDiceEvent(evt'))
          => (counts' = counts /\ n' = n /\ err' = "none") ]_vars

\* After two counted rolls an outcome of 7 was passed and nothing changed.
C6_Witness ==
    /\ op = "process_event" /\ calls = 3
    /\ evt = [isdict |-> TRUE, event_type |-> "dice", otype |-> "int",
              oval |-> 7]
    /\ n = 2 /\ counts[3] = 2

-----------------------------------------------------------------------------
(* Specification SpecWriter: init() and maybe_write(n, counts) called in   *)
(* any order on a log that does not exist yet, for each cadence.           *)

Intervals == {-1, 0, 1, 2, 50}

WriterNs == {0, 1, 2, 50, 100}

ZeroCounts == [f \in Faces |-> 0]

WriterCounts ==
    { ZeroCounts,
      [f \in Faces |-> IF f \in {1, 6} THEN 1 ELSE 0] }

\* snap.init()
snap_init ==
    /\ calls < MaxWriterCalls
    /\ file' = init_file(exists, file)
    /\ exists' = TRUE
    /\ op' = "init"
    /\ calls' = calls + 1
    /\ err' = "none"
    /\ UNCHANGED << consumerVars, SNAPSHOT_EVERY, missing_cols, liveVars, analyzerVars,
                    evt, arg_n, k >>

\* snap.maybe_write(total, cs)
maybe_write(total, cs) ==
    /\ calls < MaxWriterCalls
    /\ \E ts \in TsVals :
          file' = maybe_write_file(file, total, cs, ts, SNAPSHOT_EVERY)
    /\ exists' = (exists \/ ShouldWrite(total, SNAPSHOT_EVERY))
    /\ op' = "maybe_write"
    /\ arg_n' = total
    /\ calls' = calls + 1
    /\ err' = "none"
    /\ UNCHANGED << consumerVars, SNAPSHOT_EVERY, missing_cols, liveVars, analyzerVars,
                    evt, k >>

WriterInit ==
    /\ ConsumerIdle /\ LiveIdle /\ AnalyzerIdle /\ HistoryInit
    /\ launched_at = << >>
    /\ SNAPSHOT_EVERY \in Intervals
    /\ missing_cols = {}
    /\ exists = FALSE
    /\ file = << >>

WriterNext ==
    \/ snap_init
    \/ \E total \in WriterNs, cs \in WriterCounts : maybe_write(total, cs)

SpecWriter == WriterInit /\ [][WriterNext]_vars

\* The cadence test as the specification states it.
CadencePasses(total, every) == every > 0 /\ total % every = 0

\* C2 (cadence): a maybe_write(n, counts) call appends exactly one row if
\* interval > 0 and n mod interval = 0, and otherwise leaves the log as it
\* was; with interval <= 0 it never appends.
C2_Cadence ==
    [][ (op' = "maybe_write" /\ calls' = calls + 1)
          => /\ (Len(file') = Len(file) + 1)
                  <=> CadencePasses(arg_n', SNAPSHOT_EVERY)
             /\ ~CadencePasses(arg_n', SNAPSHOT_EVERY)
                  => (file' = file /\ exists' = exists)
             /\ SNAPSHOT_EVERY <= 0 => file' = file ]_vars

\* With interval 50, the calls for n = 0 and n = 50 each appended a row and
\* the call for n = 2 appended nothing.
C2_Witness ==
    /\ SNAPSHOT_EVERY = 50
    /\ op = "maybe_write" /\ arg_n = 2 /\ calls = 3
    /\ Len(file) = 2 /\ file[1].n = 0 /\ file[2].n = 50

\* C3 (derived statistics at n = 0): every row recorded for n = 0 with all
\* counts zero has chi2 = 0, max_abs_dev = 0 and six proportions of 0.
C3_ZeroStatsAtZero ==
    \A i \in 1..Len(file) :
        (file[i].kind = "row" /\ file[i].n = 0 /\ file[i].c = counts_vec(ZeroCounts))
            => /\ file[i].chi2 = 0
               /\ file[i].max_abs_dev = 0
               /\ \A f \in Faces : file[i].p[f][1] = 0

\* C7 (append-only, no deduplication): across every init() and
\* maybe_write() call the old content is a prefix of the new content, and a
\* maybe_write call that passes the cadence test adds exactly one row.
C7_AppendOnly ==
    [][ /\ IsPrefix(file, file')
        /\ (op' = "maybe_write" /\ calls' = calls + 1
                /\ CadencePasses(arg_n', SNAPSHOT_EVERY))
              => Len(file') = Len(file) + 1 ]_vars

\* After init(), two calls with the same (n, counts) at the same clock
\* reading left two equal rows behind the header.
C7_Witness ==
    /\ Len(file) = 3
    /\ file[1] = Header
    /\ file[2].kind = "row" /\ file[3] = file[2]

\* C11 (header on creation): whenever the log file exists, its first line
\* is the header row, whatever init() and maybe_write() calls were made on
\* a log that did not exist.
C11_HeaderFirst ==
    exists => (file # << >> /\ file[1] = Header)

-----------------------------------------------------------------------------
(* Specification SpecLive: one execution of animate_live                   *)
(* (consumers/animate_dice.py) under any timer ticks and key presses.      *)

LiveIntervals == {0, 2, 3}

\* The guard of update (line 120): the tick does nothing.
UpdateSkipsPausedOnly(p, s) == p

UpdateSkipsAlways(p, s) == TRUE

UpdateSkips(p, s) == p \/ s

\* animate_live up to plt.show() (lines 49-57, 117, 137-142, 165-168):
\* consume_forever makes a fresh consumer, the priming next(gen) pulls and
\* processes one event, then snap.init() and snap.maybe_write(n, counts);
\* showing the figure starts the animation timer.  MaxPulls bounds the
\* events pulled over all the processes of a history.
animate_live ==
    /\ pc = "off"
    /\ k < MaxPulls
    /\ launched_at' = Append(launched_at, Len(init_file(exists, file)) - 1)
    /\ \E face \in Faces, ts \in TsVals :
          LET r == Process(init_counts, 0, DiceEvent(face))
          IN  /\ counts' = r[1]
              /\ n' = r[2]
              /\ held' = [counts |-> "self.counts",
                          proportions |-> proportions(r[1]), n |-> r[2]]
              /\ evt' = DiceEvent(face)
              /\ k' = k + 1
              /\ file' = maybe_write_file(init_file(exists, file), r[2], r[1],
                                          ts, SNAPSHOT_EVERY)
              /\ state_n' = r[2]
              /\ arg_n' = r[2]
    /\ exists' = TRUE
    /\ pulls' = 1
    /\ paused' = FALSE
    /\ stopped' = FALSE
    /\ timer' = TRUE
    /\ at_pause' = << >>
    /\ pc' = "show"
    /\ op' = "animate_live"
    /\ err' = "none"
    /\ UNCHANGED << SNAPSHOT_EVERY, missing_cols, analyzerVars, calls >>

\* update(_frame) (lines 119-134), called by the animation timer (and once
\* by the animation's first draw, when neither flag is set).
update ==
    /\ pc = "show"
    /\ timer
    /\ IF UpdateSkips(paused, stopped)
       THEN UNCHANGED << consumerVars, snapVars, state_n, pulls, evt, arg_n,
                         k >>
       ELSE /\ k < MaxPulls
            /\ \E face \in Faces, ts \in TsVals :
                  LET r == Process(counts, n, DiceEvent(face))
                  IN  /\ counts' = r[1]
                      /\ n' = r[2]
                      /\ held' = [counts |-> "self.counts",
                                  proportions |-> proportions(r[1]),
                                  n |-> r[2]]
                      /\ evt' = DiceEvent(face)
                      /\ k' = k + 1
                      /\ file' = maybe_write_file(file, r[2], r[1], ts,
                                                  SNAPSHOT_EVERY)
                      /\ exists' = (exists \/ ShouldWrite(r[2], SNAPSHOT_EVERY))
                      /\ state_n' = r[2]
                      /\ arg_n' = r[2]
            /\ pulls' = pulls + 1
            /\ UNCHANGED << SNAPSHOT_EVERY, missing_cols >>
    /\ op' = "update"
    /\ err' = "none"
    /\ UNCHANGED << pc, paused, stopped, timer, at_pause, launched_at,
                    analyzerVars, calls >>

\* on_key with event.key == " " (lines 149-156)
on_key_space ==
    /\ pc = "show"
    /\ paused' = ~paused
    /\ timer' = IF paused' THEN FALSE ELSE TRUE
    /\ at_pause' = IF paused' THEN << state_n, pulls, file >> ELSE at_pause
    /\ op' = "on_key_space"
    /\ err' = "none"
    /\ UNCHANGED << consumerVars, snapVars, pc, stopped, state_n, pulls,
                    launched_at,
                    analyzerVars, evt, arg_n, calls, k >>

\* on_key with event.key in ("x", "X") (lines 157-163)
on_key_x ==
    /\ pc = "show"
    /\ IF ~stopped
       THEN stopped' = TRUE /\ timer' = FALSE
       ELSE UNCHANGED << stopped, timer >>
    /\ op' = "on_key_x"
    /\ err' = "none"
    /\ UNCHANGED << consumerVars, snapVars, pc, paused, state_n, pulls,
                    at_pause, launched_at,
                    analyzerVars, evt, arg_n, calls, k >>

\* on_key with any other key (falls through both branches)
on_key_other ==
    /\ pc = "show"
    /\ op' = "on_key_other"
    /\ err' = "none"
    /\ UNCHANGED << consumerVars, snapVars, liveVars, analyzerVars, evt,
                    arg_n, calls, k >>

\* The window is closed: plt.show() returns and the process ends.
close_window ==
    /\ pc = "show"
    /\ pc' = "closed"
    /\ timer' = FALSE
    /\ op' = "close"
    /\ err' = "none"
    /\ UNCHANGED << consumerVars, snapVars, paused, stopped, state_n, pulls,
                    at_pause, launched_at,
                    analyzerVars, evt, arg_n, calls, k >>

\* The script is run again after the previous process has ended
\* (lines 170-171): nothing of the old process is left but the log.
relaunch ==
    /\ pc = "closed"
    /\ k < MaxPulls
    /\ pc' = "off"
    /\ counts' = init_counts /\ n' = 0 /\ held' = NoSnapshot
    /\ paused' = FALSE /\ stopped' = FALSE /\ state_n' = 0
    /\ pulls' = 0 /\ at_pause' = << >>
    /\ op' = "relaunch"
    /\ err' = "none"
    /\ UNCHANGED << snapVars, timer, launched_at, analyzerVars, evt, arg_n,
                    calls, k >>

LiveInit ==
    /\ ConsumerIdle /\ LiveIdle /\ AnalyzerIdle /\ HistoryInit
    /\ launched_at = << >>
    /\ SNAPSHOT_EVERY \in LiveIntervals
    /\ missing_cols = {}
    /\ \/ exists = FALSE /\ file = << >>
       \/ exists = TRUE /\ file = << Header >>

LiveNext ==
    \/ animate_live
    \/ update
    \/ on_key_space
    \/ on_key_x
    \/ on_key_other
    \/ close_window

SpecLive == LiveInit /\ [][LiveNext]_vars

\* Consecutive live processes appending to one log.
RelaunchNext == LiveNext \/ relaunch

SpecRelaunch == LiveInit /\ [][RelaunchNext]_vars

\* C8 (stop is permanent): from the moment the stop key has been handled,
\* whatever ticks and keys follow, the process stays stopped, pulls no
\* event, changes neither n nor the counts and writes no row.
C8_StopPermanent ==
    [][ stopped => /\ stopped'
                   /\ pulls' = pulls
                   /\ n' = n /\ counts' = counts
                   /\ file' = file ]_vars

\* Stopped after two events, then space pressed twice (the timer runs
\* again and the process is not paused) and a tick handled.
C8_Witness ==
    /\ stopped /\ ~paused /\ timer
    /\ op = "update"
    /\ pulls = 2 /\ n = 2

\* C13 (pause stops pulling and loses nothing): while the presenter is
\* paused the events pulled, the aggregator, the displayed n and the log
\* are what they were when space paused it; since the last pause n has
\* advanced by exactly the number of events pulled, and the displayed n is
\* the aggregator's n; every tick handled while neither paused nor stopped
\* pulls exactly one event and raises n and the displayed n by one, so the
\* first tick after a resume shows the n at pause plus 1.
C13_PauseLosesNothing ==
    /\ [](at_pause # << >> =>
            /\ paused => /\ state_n = at_pause[1]
                         /\ pulls = at_pause[2]
                         /\ file = at_pause[3]
            /\ n - at_pause[1] = pulls - at_pause[2]
            /\ state_n = n
            /\ SumSeq(counts_vec(counts)) = n)
    /\ [][ (op' = "update" /\ ~paused /\ ~stopped) =>
                /\ pulls' = pulls + 1
                /\ n' = n + 1
                /\ state_n' = state_n + 1 ]_vars

\* Paused after two events, resumed, and the first tick after the resume
\* handled: three events pulled, n = 3 displayed.
C13_Witness ==
    /\ at_pause # << >> /\ at_pause[1] = 2 /\ at_pause[2] = 2
    /\ ~paused /\ ~stopped /\ timer
    /\ op = "update"
    /\ pulls = 3 /\ n = 3 /\ state_n = 3

\* The rows the running (or last) live process has appended to the log.
AppendedRows ==
    SubSeq(file, launched_at[Len(launched_at)] + 2, Len(file))

\* C14 (lock-step persistence): in a live process with interval > 0 that
\* has handled k events, the aggregator has been updated k times (n = k),
\* the last maybe_write call was made with that n, and the rows the
\* process appended are exactly one row for each multiple of the interval
\* in 1..k, in increasing order of n; none has n = 0.
C14_LockStep ==
    (pc \in {"show", "closed"} /\ SNAPSHOT_EVERY > 0) =>
        /\ n = pulls /\ arg_n = pulls
        /\ Len(AppendedRows) = pulls \div SNAPSHOT_EVERY
        /\ \A i \in 1..Len(AppendedRows) :
              /\ AppendedRows[i].kind = "row"
              /\ AppendedRows[i].n = i * SNAPSHOT_EVERY

\* Four events handled at interval 2: rows n = 2 and n = 4 after the
\* header.
C14_Witness ==
    /\ pc = "show" /\ SNAPSHOT_EVERY = 2 /\ pulls = 4
    /\ Len(file) = 3 /\ file[2].n = 2 /\ file[3].n = 4

\* C16 (persisted rows are cumulative-consistent): the counts and the n
\* of the last maybe_write call made by the live process add up
\* (sum(vec) = n, the assertion disabled in maybe_write), and so does
\* every row the process has appended: c1 + ... + c6 = n.
C16_RowsConsistent ==
    pc \in {"show", "closed"} =>
        /\ SumSeq(counts_vec(counts)) = arg_n
        /\ \A i \in 1..Len(AppendedRows) :
              SumSeq(AppendedRows[i].c) = AppendedRows[i].n

\* Three events handled at interval 3: one row, n = 3, written by the
\* last update.
C16_Witness ==
    /\ pc = "show" /\ op = "update" /\ SNAPSHOT_EVERY = 3
    /\ arg_n = 3 /\ Len(AppendedRows) = 1
    /\ AppendedRows[1].n = 3 /\ SumSeq(AppendedRows[1].c) = 3

-----------------------------------------------------------------------------
(* tools/analyze_snapshots.py: the frame operations.  A frame is the       *)
(* sequence of its rows in order; index labels are positions 1..Len(df).   *)

CHI2_CRIT_5PCT == 11070000   \* 11.07, in millionths

MinOf(S) == CHOOSE x \in S : \A y \in S : x <= y
MaxOf(S) == CHOOSE x \in S : \A y \in S : y <= x

\* The members of a set of integers in ascending order.
RECURSIVE Ascending(_)
Ascending(S) ==
    IF S = {} THEN << >>
    ELSE LET m == MinOf(S) IN << m >> \o Ascending(S \ {m})

\* df["n"]
Ns(d) == [i \in 1..Len(d) |-> d[i].n]

\* .diff().fillna(0): the first difference is NaN and becomes 0.
DiffFillna0(ns) == [i \in 1..Len(ns) |-> IF i = 1 THEN 0 ELSE ns[i] - ns[i - 1]]

\* (... < 0)
DecreasedOrEqual(delta) == delta <= 0

NeverDecreased(delta) == FALSE

Decreased(delta) == delta < 0

\* .cumsum() of a boolean column
RECURSIVE CumSum(_, _)
CumSum(flags, acc) ==
    IF flags = << >> THEN << >>
    ELSE LET a == acc + (IF Head(flags) THEN 1 ELSE 0)
         IN  << a >> \o CumSum(Tail(flags), a)

\* df["run"] = (df["n"].diff().fillna(0) < 0).cumsum()   (line 53)
RunColumn(d) ==
    LET delta == DiffFillna0(Ns(d))
    IN  CumSum([i \in 1..Len(d) |-> Decreased(delta[i])], 0)

\* latest = df[df["run"] == df["run"].max()]   (line 60); the maximum of an
\* empty column is NaN, which equals nothing.
LatestRows(d, r) ==
    IF r = << >> THEN << >>
    ELSE Ascending({i \in 1..Len(d) : r[i] = MaxOf({r[j] : j \in 1..Len(r)})})

\* row = latest.iloc[-1] if not latest.empty else df.iloc[-1]   (line 65):
\* iloc[-1] of an empty frame raises IndexError.
FinalRowNeverRaises(lat, d) == FALSE

FinalRowRaises(lat, d) == lat = << >> /\ d = << >>

\* df["passes_chi2_5pct"] = df["chi2"] < CHI2_CRIT_5PCT   (line 136)
Passes(row) == row.chi2 < CHI2_CRIT_5PCT

\* ["n"].min() of one group   (line 139)
FirstPassNMax(S) == MaxOf(S)

FirstPassN(S) == MinOf(S)

\* first_pass (lines 137-141): one row per run that has a passing row, in
\* ascending run order (groupby sorts its keys).
FirstPassFrame(d, r) ==
    LET passing == {i \in 1..Len(d) : Passes(d[i])}
        runs    == Ascending({r[i] : i \in passing})
    IN  [j \in 1..Len(runs) |->
            [run |-> runs[j],
             n_at_first_pass |->
                 FirstPassN({d[i].n : i \in {x \in passing : r[x] = runs[j]}})]]

\* df.sort_values(["run", "n"])   (line 147): the index labels in sorted
\* order.  Sorting by several columns is a stable lexicographic sort: rows
\* with equal (run, n) keep their file order.
SortRunN(d, r) ==
    LET Before(j, i) == \/ r[j] < r[i]
                        \/ r[j] = r[i] /\ d[j].n < d[i].n
                        \/ r[j] = r[i] /\ d[j].n = d[i].n /\ j < i
        Rank(i) == Cardinality({j \in 1..Len(d) : Before(j, i)}) + 1
    IN  [pos \in 1..Len(d) |-> CHOOSE i \in 1..Len(d) : Rank(i) = pos]

\* .groupby("run").tail(1)   (lines 148-149): the last row of each group,
\* in the order of the sorted frame.
HeadOne(sorted, r) ==
    LET keep == {pos \in 1..Len(sorted) :
                    \A q \in 1..(pos - 1) : r[sorted[q]] # r[sorted[pos]]}
        at   == Ascending(keep)
    IN  [j \in 1..Len(at) |-> sorted[at[j]]]

TailOne(sorted, r) ==
    LET keep == {pos \in 1..Len(sorted) :
                    \A q \in (pos + 1)..Len(sorted) : r[sorted[q]] # r[sorted[pos]]}
        at   == Ascending(keep)
    IN  [j \in 1..Len(at) |-> sorted[at[j]]]

\* last_per_run.merge(first_pass, on="run", how="left").sort_values("run")
\* (line 152).  The kept columns are run, n, max_abs_dev, chi2, p1..p6; a
\* run without a row in first_pass gets NaN, modelled as the empty
\* sequence, a present value v as << v >>.
SummaryFrame(d, r, lpr, fp) ==
    LET merged == [j \in 1..Len(lpr) |->
                     LET i == lpr[j]
                         m == {x \in 1..Len(fp) : fp[x].run = r[i]}
                     IN  [run |-> r[i], n |-> d[i].n,
                          max_abs_dev |-> d[i].max_abs_dev,
                          chi2 |-> d[i].chi2, p |-> d[i].p,
                          n_at_first_pass |->
                              IF m = {} THEN << >>
                              ELSE << fp[CHOOSE x \in m : TRUE].n_at_first_pass >>]]
        Rank(j) == Cardinality({x \in 1..Len(merged) :
                                   \/ merged[x].run < merged[j].run
                                   \/ merged[x].run = merged[j].run /\ x < j}) + 1
    IN  [pos \in 1..Len(merged) |->
            merged[CHOOSE j \in 1..Len(merged) : Rank(j) = pos]]

-----------------------------------------------------------------------------
(* Specification SpecAnalyze: one execution of tools/analyze_snapshots.py  *)
(* on a log file, statement by statement.                                  *)

\* The columns of the log (FIELDS of utils/snapshot.py) and the ones each
\* statement of the analyzer reads from the frame.
PCols == {"p1", "p2", "p3", "p4", "p5", "p6"}
CCols == {"c1", "c2", "c3", "c4", "c5", "c6"}
RequiredColumns == {"n", "chi2", "max_abs_dev"} \cup PCols \cup CCols
FIELDS == {"ts"} \cup RequiredColumns

ColsRun         == {"n"}                                  \* line 53
ColsPCum        == CCols \cup {"n"}                       \* lines 56-57
ColsFirstPass   == {"chi2", "n"}                          \* lines 136-139
ColsLastPerRun  == {"n", "max_abs_dev", "chi2"} \cup PCols \* lines 147-149

\* The KeyError pandas raises for a column that is not in the frame; its
\* message is the column's name.
KeyError(col) ==
    CASE col = "n"  -> "KeyError: n"
      [] col = "chi2" -> "KeyError: chi2"
      [] col = "max_abs_dev" -> "KeyError: max_abs_dev"
      [] col = "p1" -> "KeyError: p1"
      [] col = "p2" -> "KeyError: p2"
      [] col = "p3" -> "KeyError: p3"
      [] col = "p4" -> "KeyError: p4"
      [] col = "p5" -> "KeyError: p5"
      [] col = "p6" -> "KeyError: p6"
      [] col = "c1" -> "KeyError: c1"
      [] col = "c2" -> "KeyError: c2"
      [] col = "c3" -> "KeyError: c3"
      [] col = "c4" -> "KeyError: c4"
      [] col = "c5" -> "KeyError: c5"
      [] col = "c6" -> "KeyError: c6"
      [] OTHER -> "KeyError"

\* A statement reading the columns cols fails on the frame.
ReadFails(cols) == cols \cap missing_cols # {}

\* ... and ends the script with the KeyError of the absent column.
RaiseKeyError(cols) ==
    /\ apc' = "failed"
    /\ err' = KeyError(CHOOSE c \in cols \cap missing_cols : TRUE)

\* python tools/analyze_snapshots.py: lines 47-50.  read_csv raises
\* FileNotFoundError for a missing file, EmptyDataError for a file without
\* any line, and ValueError when the first line lacks the parse_dates
\* column "ts" (a file whose first line is a data row, or a header
\* without ts).
an_load ==
    /\ apc = "off"
    /\ IF ~exists
       THEN apc' = "failed" /\ err' = "FileNotFoundError" /\ UNCHANGED df
       ELSE IF file = << >>
       THEN apc' = "failed" /\ err' = "EmptyDataError" /\ UNCHANGED df
       ELSE IF file[1] # Header \/ "ts" \in missing_cols
       THEN apc' = "failed" /\ err' = "ValueError" /\ UNCHANGED df
       ELSE apc' = "loaded" /\ err' = "none" /\ df' = Tail(file)
    /\ op' = "read_csv"
    /\ UNCHANGED << consumerVars, snapVars, liveVars, run, latest, written,
                    first_pass, last_per_run, summary, evt, arg_n, calls, k >>

\* line 53
an_run ==
    /\ apc = "loaded"
    /\ IF ReadFails(ColsRun)
       THEN RaiseKeyError(ColsRun) /\ UNCHANGED run
       ELSE run' = RunColumn(df) /\ apc' = "runs" /\ err' = "none"
    /\ op' = "run"
    /\ UNCHANGED << consumerVars, snapVars, liveVars, df, latest, written,
                    first_pass, last_per_run, summary, evt, arg_n, calls, k >>

\* lines 56-57: c_i / n is NaN or inf where n is 0; nothing is raised and
\* the columns feed the plots only.
an_pcum ==
    /\ apc = "runs"
    /\ IF ReadFails(ColsPCum)
       THEN RaiseKeyError(ColsPCum)
       ELSE apc' = "pcum" /\ err' = "none"
    /\ op' = "p_cum"
    /\ UNCHANGED << consumerVars, snapVars, liveVars, df, run, latest,
                    written, first_pass, last_per_run, summary, evt, arg_n,
                    calls, k >>

\* line 60
an_latest ==
    /\ apc = "pcum"
    /\ latest' = LatestRows(df, run)
    /\ apc' = "latest"
    /\ op' = "latest"
    /\ UNCHANGED << consumerVars, snapVars, liveVars, df, run, written,
                    first_pass, last_per_run, summary, evt, arg_n, calls, k,
                    err >>

\* lines 65-68
an_row ==
    /\ apc = "latest"
    /\ IF FinalRowRaises(latest, df)
       THEN apc' = "failed" /\ err' = "IndexError"
       ELSE apc' = "row" /\ err' = "none"
    /\ op' = "row"
    /\ UNCHANGED << consumerVars, snapVars, liveVars, df, run, latest,
                    written, first_pass, last_per_run, summary, evt, arg_n,
                    calls, k >>

\* lines 75-104: plt.savefig(".../faces_distribution.png")
an_save_distribution ==
    /\ apc = "row"
    /\ written' = written \cup {"faces_distribution.png"}
    /\ apc' = "fig1"
    /\ op' = "savefig"
    /\ UNCHANGED << consumerVars, snapVars, liveVars, df, run, latest,
                    first_pass, last_per_run, summary, evt, arg_n, calls, k,
                    err >>

\* lines 109-131: plt.savefig(".../faces_trend.png")
an_save_trend ==
    /\ apc = "fig1"
    /\ written' = written \cup {"faces_trend.png"}
    /\ apc' = "fig2"
    /\ op' = "savefig"
    /\ UNCHANGED << consumerVars, snapVars, liveVars, df, run, latest,
                    first_pass, last_per_run, summary, evt, arg_n, calls, k,
                    err >>

\* lines 136-141
an_first_pass ==
    /\ apc = "fig2"
    /\ IF ReadFails(ColsFirstPass)
       THEN RaiseKeyError(ColsFirstPass) /\ UNCHANGED first_pass
       ELSE /\ first_pass' = FirstPassFrame(df, run)
            /\ apc' = "first_pass" /\ err' = "none"
    /\ op' = "first_pass"
    /\ UNCHANGED << consumerVars, snapVars, liveVars, df, run, latest,
                    written, last_per_run, summary, evt, arg_n, calls, k >>

\* lines 146-150
an_last_per_run ==
    /\ apc = "first_pass"
    /\ IF ReadFails(ColsLastPerRun)
       THEN RaiseKeyError(ColsLastPerRun) /\ UNCHANGED last_per_run
       ELSE /\ last_per_run' = TailOne(SortRunN(df, run), run)
            /\ apc' = "last_per_run" /\ err' = "none"
    /\ op' = "last_per_run"
    /\ UNCHANGED << consumerVars, snapVars, liveVars, df, run, latest,
                    written, first_pass, summary, evt, arg_n, calls, k >>

\* lines 152-153: summary, then summary.to_csv(".../summary.csv")
an_summary ==
    /\ apc = "last_per_run"
    /\ summary' = SummaryFrame(df, run, last_per_run, first_pass)
    /\ written' = written \cup {"summary.csv"}
    /\ apc' = "done"
    /\ op' = "summary"
    /\ UNCHANGED << consumerVars, snapVars, liveVars, df, run, latest,
                    first_pass, last_per_run, evt, arg_n, calls, k, err >>

\* Counts of n rolls spread as evenly as possible, and all on face 1.
SpreadCounts(total) ==
    [f \in Faces |-> (total \div 6) + (IF f <= total % 6 THEN 1 ELSE 0)]

OneFaceCounts(total) == [f \in Faces |-> IF f = 1 THEN total ELSE 0]

\* Rows as maybe_write records them, for the logs the analyzer is run on.
AnalyzerNs == {0, 6, 12}

AnalyzerRows ==
    { Row(0, total, SpreadCounts(total)) : total \in AnalyzerNs }
        \cup { Row(0, total, OneFaceCounts(total)) : total \in AnalyzerNs }

GeneratedLogs ==
    { << Header >> \o rows :
        rows \in UNION { [1..m -> AnalyzerRows] : m \in 0..MaxRows } }

\* A log whose n column is 10, 20, 30, 5, 15, 25, 8.
ExampleRunNs == << 10, 20, 30, 5, 15, 25, 8 >>

ExampleRunLog ==
    << Header >> \o [i \in 1..Len(ExampleRunNs) |->
                       Row(0, ExampleRunNs[i], SpreadCounts(ExampleRunNs[i]))]

\* A one-run log whose chi2 column is 20, 9, 12, 5 (cadence 6).
ExampleChi2Log ==
    << Header,
       Row(0, 6,  << 5, 1, 0, 0, 0, 0 >>),
       Row(0, 12, << 5, 3, 2, 2, 0, 0 >>),
       Row(0, 18, << 8, 4, 2, 2, 1, 1 >>),
       Row(0, 24, << 8, 4, 3, 3, 3, 3 >>) >>

\* A log written by maybe_write alone: no header line.
HeaderlessLog == << Row(0, 6, SpreadCounts(6)) >>

\* Logs written by consecutive live processes at one interval: process j
\* handled enough events to append ms[j] rows, which are the rows for
\* n = interval, 2*interval, ... (the rows animate_live and update append,
\* one maybe_write call per event).
LogInterval == 6

ExecutionRows(m) ==
    [i \in 1..m |-> Row(0, i * LogInterval, SpreadCounts(i * LogInterval))]

RECURSIVE ExecutionsLog(_)
ExecutionsLog(ms) ==
    IF ms = << >> THEN << Header >>
    ELSE ExecutionsLog(SubSeq(ms, 1, Len(ms) - 1))
             \o ExecutionRows(ms[Len(ms)])

\* The data rows in the log when process j was launched.
LaunchPoints(ms) == [j \in 1..Len(ms) |-> SumSeq(SubSeq(ms, 1, j - 1))]

ExecutionLengths == UNION { [1..e -> 1..3] : e \in 2..3 }

AnalyzeInit ==
    /\ ConsumerIdle /\ LiveIdle /\ AnalyzerIdle /\ HistoryInit
    /\ \/ /\ exists = FALSE /\ file = << >> /\ missing_cols = {}
          /\ SNAPSHOT_EVERY = 0 /\ launched_at = << >>
       \/ /\ exists = TRUE
          /\ missing_cols = {}
          /\ file \in GeneratedLogs
                        \cup {ExampleRunLog, ExampleChi2Log, HeaderlessLog, << >>}
          /\ SNAPSHOT_EVERY = 0 /\ launched_at = << >>
       \/ /\ exists = TRUE
          /\ \E col \in FIELDS : missing_cols = {col}
          /\ file \in {ExampleChi2Log, << Header >>}
          /\ SNAPSHOT_EVERY = 0 /\ launched_at = << >>
       \/ /\ exists = TRUE
          /\ missing_cols = {}
          /\ SNAPSHOT_EVERY = LogInterval
          /\ \E ms \in ExecutionLengths :
                /\ file = ExecutionsLog(ms)
                /\ launched_at = LaunchPoints(ms)

AnalyzeNext ==
    \/ an_load
    \/ an_run
    \/ an_pcum
    \/ an_latest
    \/ an_row
    \/ an_save_distribution
    \/ an_save_trend
    \/ an_first_pass
    \/ an_last_per_run
    \/ an_summary

SpecAnalyze == AnalyzeInit /\ [][AnalyzeNext]_vars

\* The run column has been computed.
RunAssigned ==
    apc \in {"runs", "pcum", "latest", "row", "fig1", "fig2", "first_pass",
             "last_per_run", "done"}

\* C4 (run segmentation): run[i] is the number of positions j with
\* 0 < j <= i where n[j] < n[j-1] (positions counted from 0); so a row
\* stays in the run of the row before it exactly when n did not decrease,
\* a decrease opens the next run, and the n column 10,20,30,5,15,25,8 gets
\* the runs 0,0,0,1,1,1,2.
C4_RunSegmentation ==
    RunAssigned =>
        /\ Len(run) = Len(df)
        /\ \A i \in 1..Len(df) :
              run[i] = Cardinality({j \in 2..i : df[j].n < df[j - 1].n})
        /\ \A i \in 2..Len(df) :
              /\ df[i].n >= df[i - 1].n => run[i] = run[i - 1]
              /\ df[i].n < df[i - 1].n => run[i] = run[i - 1] + 1
        /\ Ns(df) = ExampleRunNs => run = << 0, 0, 0, 1, 1, 1, 2 >>

\* The example log has been analysed to the end.
C4_Witness ==
    /\ apc = "done"
    /\ Ns(df) = ExampleRunNs
    /\ run = << 0, 0, 0, 1, 1, 1, 2 >>

\* The rows of run r, and those of them that pass the chi-square test.
RowsOfRun(r) == {i \in 1..Len(df) : run[i] = r}

PassingOfRun(r) == {i \in RowsOfRun(r) : df[i].chi2 < CHI2_CRIT_5PCT}

\* C5 (fairness checkpoint): every run has a summary row; its
\* n_at_first_pass is the least n among the run's rows with chi2 < 11.07,
\* which is the n of the first such row in file order, and it is absent
\* (not 0) when the run has no such row; for the chi2 column 20, 9, 12, 5
\* it is the n of the second row.
C5_FirstPass ==
    apc = "done" =>
        /\ \A i \in 1..Len(df) : \E j \in 1..Len(summary) : summary[j].run = run[i]
        /\ \A j \in 1..Len(summary) :
              LET pass == PassingOfRun(summary[j].run)
              IN  IF pass = {}
                  THEN summary[j].n_at_first_pass = << >>
                  ELSE /\ summary[j].n_at_first_pass = << df[MinOf(pass)].n >>
                       /\ \A i \in pass : summary[j].n_at_first_pass[1] <= df[i].n
        /\ [i \in 1..Len(df) |-> df[i].chi2]
                = << 20000000, 9000000, 12000000, 5000000 >>
             => summary[1].n_at_first_pass = << df[2].n >>

\* The log with chi2 = 20, 9, 12, 5 has been analysed: the checkpoint is the
\* second row's n = 12.
C5_Witness ==
    /\ apc = "done"
    /\ [i \in 1..Len(df) |-> df[i].chi2] = << 20000000, 9000000, 12000000, 5000000 >>
    /\ Len(summary) = 1
    /\ summary[1].n_at_first_pass = << 12 >>

\* C9 (empty log is fatal before output): on a log with a header and no
\* data row the analyzer never gets past choosing the final row, the step
\* that chooses it ends the run with an error, and no output file is
\* written.
C9_EmptyLogFatal ==
    /\ [](exists /\ file = << Header >>
            => /\ written = {}
               /\ apc \in {"off", "loaded", "runs", "pcum", "latest", "failed"}
               /\ apc = "failed" => err # "none")
    /\ [][ (exists /\ file = << Header >> /\ apc = "latest")
             => (apc' = "failed" /\ err' # "none" /\ written' = {}) ]_vars

\* The analyzer has failed on the header-only log with nothing written.
C9_Witness ==
    /\ exists /\ file = << Header >>
    /\ apc = "failed" /\ err = "IndexError"
    /\ op = "row"
    /\ written = {}

\* C10 (per-run summary): the summary has one row per run, in ascending
\* run order, and the row of a run carries the values of the last row of
\* that run in file order, whose n is the run's maximum n.
C10_PerRunSummary ==
    apc = "done" =>
        /\ Len(summary) = MaxOf({run[i] : i \in 1..Len(run)}) + 1
        /\ \A j \in 1..Len(summary) :
              LET last == MaxOf(RowsOfRun(j - 1))
              IN  /\ summary[j].run = j - 1
                  /\ summary[j].n = df[last].n
                  /\ summary[j].chi2 = df[last].chi2
                  /\ summary[j].max_abs_dev = df[last].max_abs_dev
                  /\ summary[j].p = df[last].p
                  /\ \A i \in RowsOfRun(j - 1) : df[i].n <= summary[j].n

\* Two runs; the first ends with two rows that share its maximum n and
\* differ in chi2.
C10_Witness ==
    /\ apc = "done"
    /\ Len(df) = 3
    /\ run = << 0, 0, 1 >>
    /\ df[1].n = df[2].n
    /\ df[1].chi2 # df[2].chi2
    /\ Len(summary) = 2

\* C12 (missing column is fatal without partial output): on a log with a
\* header and at least one data row that lacks one of the required columns
\* the analyzer never completes, and when it has failed the error names
\* the absent column and no output file has been written.
C12_MissingColumnFatal ==
    \A col \in RequiredColumns :
        (exists /\ file # << >> /\ file[1] = Header /\ missing_cols = {col})
            => /\ apc # "done"
               /\ apc = "failed" /\ Len(df) > 0
                    => (err = KeyError(col) /\ written = {})

------------------------------------------------------------------------------
(* The analyzer's run column on a log written by consecutive live          *)
(* processes.                                                              *)

\* The live process that appended data row i of the log (1 = the first).
ExecutionOf(i) ==
    Cardinality({j \in 1..Len(launched_at) : launched_at[j] < i})

\* Every live process launched so far has appended at least one row.
EveryExecutionAppended ==
    \A j \in 1..Len(launched_at) :
        launched_at[j] < (IF j < Len(launched_at) THEN launched_at[j + 1]
                          ELSE Len(file) - 1)

\* The analyzer has computed the run column of a log written by two or
\* more live processes at one positive interval, each of which appended
\* at least one row.
RunsOfExecutions ==
    /\ apc \notin {"off", "loaded", "failed"}
    /\ SNAPSHOT_EVERY > 0
    /\ Len(launched_at) >= 2 /\ EveryExecutionAppended

\* C15 (runs coincide with process executions): in a log written by two or
\* more consecutive live processes with one positive interval, each of
\* which appended at least one row, two rows are in the same run of the
\* analyzer exactly when the same process appended them.
C15_RunsAreExecutions ==
    RunsOfExecutions =>
        \A i, j \in 1..Len(df) :
            (ExecutionOf(i) = ExecutionOf(j)) <=> (run[i] = run[j])

\* C15, as the analyzer computes it: on such a log no run boundary falls
\* inside the rows of one process, and the boundary between two processes
\* is a run boundary exactly when the later process's first row has a
\* smaller n than the row before it; otherwise the later process's rows
\* continue the run of the earlier one.
C15_RunsFollowDecrease ==
    RunsOfExecutions =>
        \A i \in 2..Len(df) :
            /\ run[i] \in {run[i - 1], run[i - 1] + 1}
            /\ (run[i] # run[i - 1])
                   <=> (/\ ExecutionOf(i) # ExecutionOf(i - 1)
                        /\ df[i].n < df[i - 1].n)

\* Three processes appended rows n = 6, 12 | 6 | 6: the analyzer finished
\* with runs 0, 0, 1, 1 (the first boundary is a run boundary, the second
\* is not).
C15_Witness ==
    /\ apc = "done"
    /\ launched_at = << 0, 2, 3 >>
    /\ Ns(df) = << 6, 12, 6, 6 >>
    /\ run = << 0, 0, 1, 1 >>

====
